---- MODULE Spec2Model ----
(***************************************************************************)
(* The per-cpu reader/writer semaphore of lib/percpu-rwsem.c               *)
(* (src/unnamed/part_000, lines 85-207).                                   *)
(*                                                                         *)
(* Reader threads call percpu_down_read / percpu_up_read, writer threads   *)
(* call percpu_down_write / percpu_up_write.  Every statement of the four  *)
(* functions that touches shared state is one step of the calling thread.  *)
(* update_fast_ctr is two steps: the mutex_is_locked() test made with      *)
(* preemption disabled, and the __this_cpu_add() that ends the preempt-    *)
(* disabled section.  clear_fast_ctr is one step per possible cpu.         *)
(***************************************************************************)
EXTENDS Integers, FiniteSets

\* ------------------------------------------------------------- bounds
NumReaders == 2
NumWriters == 2
NumCPUs == 2
\* Largest magnitude a per-cpu slot may reach (readers that migrate between
\* acquire and release make the slots drift apart without limit).
MaxCtr == 2

Readers == 1..NumReaders
Writers == 1..NumWriters
CPUs == 1..NumCPUs

\* ------------------------------------------------- 32-bit arithmetic
\* A 32-bit object is held as the int that has its bit pattern, so that
\* `unsigned int` 0xffffffff and `int` -1 are the same value and the
\* conversions between int and unsigned int (which keep the bit pattern)
\* need no operator.  Addition wraps as the machine's does.
MaxInt == 2147483647
MinInt == -MaxInt - 1

\* a + b on 32-bit objects, signed or unsigned (lines 114, 132, 142, 152, 189)
Add32(a, b) ==
  IF a > 0 /\ b > 0 /\ a > MaxInt - b
    THEN (a - MaxInt - 1) + (b - MaxInt - 1)
  ELSE IF a < 0 /\ b < 0 /\ a < MinInt - b
    THEN (a + MaxInt + 1) + (b + MaxInt + 1)
  ELSE a + b

\* the two values percpu_down_read / percpu_up_read pass as `unsigned int val`:
\* +1, and -1 converted to unsigned int
ValInc == 1
ValDec == -1

VARIABLES
  fast_read_ctr,   \* [CPUs -> int]: the per-cpu counters
  slow_read_ctr,   \* atomic_t
  writer_mutex,    \* 0 when unlocked, else the owning writer
  rw_sem,          \* [writer |-> 0 or owner, readers |-> set of readers]
  write_waitq,     \* writers queued on the wait queue, asleep until woken
  seen_locked,     \* the cpus on which the locked writer_mutex is visible
  rpc,             \* reader -> position in percpu_down_read/percpu_up_read
  rcpu,            \* reader -> cpu of its preempt-disabled section, else 0
  wpc,             \* writer -> position in percpu_down_write/percpu_up_write
  sum,             \* writer -> `unsigned int sum` of clear_fast_ctr
  cpu,             \* writer -> loop variable `cpu` of clear_fast_ctr
  ever_locked,     \* history: writer_mutex has been taken at least once
  at_barrier,      \* history: what held when the running writer's first
                   \* synchronize_sched_expedited() completed
  init_ret,        \* what percpu_init_rwsem returned: "none" before the call,
                   \* "ok" for 0, "ENOMEM" for -ENOMEM
  down_path        \* history: reader -> the counter its percpu_down_read
                   \* incremented, "fast" or "slow"; "none" once its
                   \* percpu_up_read has decremented

vars == <<fast_read_ctr, slow_read_ctr, writer_mutex, rw_sem, write_waitq,
          seen_locked, rpc, rcpu, wpc, sum, cpu, ever_locked, at_barrier,
          init_ret, down_path>>

NoBarrier == [called |-> 0, inread |-> 0, holding |-> 0, slow |-> 0, fast |-> 0]

\* ---------------------------------------------------------- helpers
RECURSIVE SumTo(_, _)
SumTo(f, n) == IF n = 0 THEN 0 ELSE f[n] + SumTo(f, n - 1)
\* mathematical sum of all per-cpu slots
SumFast == SumTo(fast_read_ctr, NumCPUs)
\* the sum as unsigned int/int arithmetic computes it
RECURSIVE SumTo32(_, _)
SumTo32(f, n) == IF n = 0 THEN 0 ELSE Add32(f[n], SumTo32(f, n - 1))

\* readers inside update_fast_ctr's preempt-disabled section, past the test
InSection(r) == rpc[r] \in {"d_add", "u_add"}
\* a cpu runs one preempt-disabled section at a time
CpuFree(c) == \A r \in Readers : ~(InSection(r) /\ rcpu[r] = c)

\* readers that called percpu_down_read and have not yet called percpu_up_read
Called(r) == rpc[r] \in {"d_add", "d_sem", "d_inc", "d_up", "cs"}
\* readers whose increment is done and whose decrement is not
Holding(r) == rpc[r] \in {"d_up", "cs", "u_add", "u_dec"}
\* readers between the return of percpu_down_read and the call of percpu_up_read
InRead(r) == rpc[r] = "cs"
\* writers between the return of percpu_down_write and the call of percpu_up_write
InWrite(w) == wpc[w] = "w_cs"

\* ------------------------------------------------------------- Init
\* percpu_init_rwsem with a successful alloc_percpu (zeroed slots)
Init ==
  /\ fast_read_ctr = [c \in CPUs |-> 0]
  /\ slow_read_ctr = 0
  /\ writer_mutex = 0
  /\ rw_sem = [writer |-> 0, readers |-> {}]
  /\ write_waitq = {}
  /\ seen_locked = {}
  /\ rpc = [r \in Readers |-> "idle"]
  /\ rcpu = [r \in Readers |-> 0]
  /\ wpc = [w \in Writers |-> "idle"]
  /\ sum = [w \in Writers |-> 0]
  /\ cpu = [w \in Writers |-> 0]
  /\ ever_locked = FALSE
  /\ at_barrier = NoBarrier
  /\ init_ret = "ok"
  /\ down_path = [r \in Readers |-> "none"]

\* ------------------------------------------------ update_fast_ctr
\* mutation: the test reads something else than the state of writer_mutex
mutex_is_locked_any(c) == {TRUE, FALSE}

\* mutation: the barrier does not make the locked mutex visible, a cpu may
\* read it unlocked for as long as it is held
mutex_is_locked_stale(c) ==
  IF writer_mutex = 0 THEN {FALSE} ELSE {TRUE, FALSE}

\* What mutex_is_locked(&brw->writer_mutex) can return on cpu c.  An unlocked
\* mutex reads unlocked.  A locked one reads locked on a cpu that has seen the
\* lock; until the writer's synchronize_sched_expedited() makes the lock
\* visible everywhere, another cpu may still read it unlocked.
mutex_is_locked(c) ==
  IF writer_mutex = 0 THEN {FALSE}
  ELSE IF c \in seen_locked THEN {TRUE}
  ELSE {TRUE, FALSE}

\* the slot of cpu c may take val more without leaving the model's range
InRange(c, val) ==
  LET v == Add32(fast_read_ctr[c], val) IN v <= MaxCtr /\ v >= -MaxCtr

\* preempt_disable(); if (!mutex_is_locked()) ...: reader r, running on cpu c,
\* goes to `fast` (inside the section, about to add) or, with the section
\* closed again, to `slow`.
update_fast_ctr_test(r, val, fast, slow) ==
  \E c \in CPUs : \E locked \in mutex_is_locked(c) :
    /\ CpuFree(c)
    /\ IF locked
         THEN /\ rpc' = [rpc EXCEPT ![r] = slow]
              /\ rcpu' = rcpu
              /\ seen_locked' = seen_locked \cup {c}
         ELSE /\ InRange(c, val)
              /\ rpc' = [rpc EXCEPT ![r] = fast]
              /\ rcpu' = [rcpu EXCEPT ![r] = c]
              /\ seen_locked' = seen_locked

\* mutation: val is taken as a count, its sign dropped
update_fast_ctr_add_unsigned(r, val, next) ==
  /\ fast_read_ctr' = [fast_read_ctr EXCEPT ![rcpu[r]] = Add32(@, ValInc)]
  /\ rpc' = [rpc EXCEPT ![r] = next]
  /\ rcpu' = [rcpu EXCEPT ![r] = 0]

\* mutation: the add of +1 is lost, the add of -1 is made
update_fast_ctr_add_lost(r, val, next) ==
  /\ fast_read_ctr' = [fast_read_ctr EXCEPT
                         ![rcpu[r]] = IF val = ValInc THEN @ ELSE Add32(@, val)]
  /\ rpc' = [rpc EXCEPT ![r] = next]
  /\ rcpu' = [rcpu EXCEPT ![r] = 0]

\* mutation: the add goes to the slot of the first cpu, not to this cpu's
update_fast_ctr_add_first(r, val, next) ==
  /\ fast_read_ctr' = [fast_read_ctr EXCEPT ![1] = Add32(@, val)]
  /\ rpc' = [rpc EXCEPT ![r] = next]
  /\ rcpu' = [rcpu EXCEPT ![r] = 0]

\* __this_cpu_add(*brw->fast_read_ctr, val); preempt_enable(); return true
update_fast_ctr_add(r, val, next) ==
  /\ fast_read_ctr' = [fast_read_ctr EXCEPT ![rcpu[r]] = Add32(@, val)]
  /\ rpc' = [rpc EXCEPT ![r] = next]
  /\ rcpu' = [rcpu EXCEPT ![r] = 0]

\* ------------------------------------------------ percpu_down_read
DR_test(r) ==
  /\ rpc[r] = "idle"
  /\ update_fast_ctr_test(r, ValInc, "d_add", "d_sem")
  /\ UNCHANGED <<fast_read_ctr, slow_read_ctr, writer_mutex, rw_sem,
                 write_waitq, wpc, sum, cpu, ever_locked, at_barrier,
                 init_ret, down_path>>

DR_add(r) ==
  /\ rpc[r] = "d_add"
  /\ update_fast_ctr_add(r, ValInc, "cs")
  /\ down_path' = [down_path EXCEPT ![r] = "fast"]
  /\ UNCHANGED <<slow_read_ctr, writer_mutex, rw_sem, write_waitq,
                 seen_locked, wpc, sum, cpu, ever_locked, at_barrier,
                 init_ret>>

\* down_read(&brw->rw_sem): blocks while a writer holds rw_sem
DR_down_read(r) ==
  /\ rpc[r] = "d_sem"
  /\ rw_sem.writer = 0
  /\ rw_sem' = [rw_sem EXCEPT !.readers = @ \cup {r}]
  /\ rpc' = [rpc EXCEPT ![r] = "d_inc"]
  /\ UNCHANGED <<fast_read_ctr, slow_read_ctr, writer_mutex, write_waitq,
                 seen_locked, rcpu, wpc, sum, cpu, ever_locked, at_barrier,
                 init_ret, down_path>>

\* mutation: the slow path takes and drops rw_sem without counting itself
DR_inc_skip(r) ==
  /\ rpc[r] = "d_inc"
  /\ rpc' = [rpc EXCEPT ![r] = "d_up"]
  /\ down_path' = [down_path EXCEPT ![r] = "slow"]
  /\ UNCHANGED <<fast_read_ctr, slow_read_ctr, writer_mutex, rw_sem,
                 write_waitq, seen_locked, rcpu, wpc, sum, cpu, ever_locked,
                 at_barrier, init_ret>>

\* atomic_inc(&brw->slow_read_ctr)
DR_inc(r) ==
  /\ rpc[r] = "d_inc"
  /\ slow_read_ctr' = Add32(slow_read_ctr, ValInc)
  /\ rpc' = [rpc EXCEPT ![r] = "d_up"]
  /\ down_path' = [down_path EXCEPT ![r] = "slow"]
  /\ UNCHANGED <<fast_read_ctr, writer_mutex, rw_sem, write_waitq,
                 seen_locked, rcpu, wpc, sum, cpu, ever_locked, at_barrier,
                 init_ret>>

\* mutation: percpu_down_read returns without up_read(&brw->rw_sem)
DR_up_read_keep(r) ==
  /\ rpc[r] = "d_up"
  /\ rpc' = [rpc EXCEPT ![r] = "cs"]
  /\ UNCHANGED <<fast_read_ctr, slow_read_ctr, writer_mutex, rw_sem,
                 write_waitq, seen_locked, rcpu, wpc, sum, cpu, ever_locked,
                 at_barrier, init_ret, down_path>>

\* up_read(&brw->rw_sem); return
DR_up_read(r) ==
  /\ rpc[r] = "d_up"
  /\ rw_sem' = [rw_sem EXCEPT !.readers = @ \ {r}]
  /\ rpc' = [rpc EXCEPT ![r] = "cs"]
  /\ UNCHANGED <<fast_read_ctr, slow_read_ctr, writer_mutex, write_waitq,
                 seen_locked, rcpu, wpc, sum, cpu, ever_locked, at_barrier,
                 init_ret, down_path>>

percpu_down_read(r) ==
  \/ DR_test(r)
  \/ DR_add(r)
  \/ DR_down_read(r)
  \/ DR_inc(r)
  \/ DR_up_read(r)

\* -------------------------------------------------- percpu_up_read
UR_test(r) ==
  /\ rpc[r] = "cs"
  /\ update_fast_ctr_test(r, ValDec, "u_add", "u_dec")
  /\ UNCHANGED <<fast_read_ctr, slow_read_ctr, writer_mutex, rw_sem,
                 write_waitq, wpc, sum, cpu, ever_locked, at_barrier,
                 init_ret, down_path>>

UR_add(r) ==
  /\ rpc[r] = "u_add"
  /\ update_fast_ctr_add(r, ValDec, "idle")
  /\ down_path' = [down_path EXCEPT ![r] = "none"]
  /\ UNCHANGED <<slow_read_ctr, writer_mutex, rw_sem, write_waitq,
                 seen_locked, wpc, sum, cpu, ever_locked, at_barrier,
                 init_ret>>

\* mutation: the counter is tested before it is decremented
UR_dec_test_first(r) ==
  /\ rpc[r] = "u_dec"
  /\ slow_read_ctr' = Add32(slow_read_ctr, ValDec)
  /\ rpc' = [rpc EXCEPT ![r] = IF slow_read_ctr = 0 THEN "u_wake" ELSE "idle"]
  /\ down_path' = [down_path EXCEPT ![r] = "none"]
  /\ UNCHANGED <<fast_read_ctr, writer_mutex, rw_sem, write_waitq,
                 seen_locked, rcpu, wpc, sum, cpu, ever_locked, at_barrier,
                 init_ret>>

\* atomic_dec_and_test(&brw->slow_read_ctr)
UR_dec(r) ==
  /\ rpc[r] = "u_dec"
  /\ slow_read_ctr' = Add32(slow_read_ctr, ValDec)
  /\ rpc' = [rpc EXCEPT ![r] = IF slow_read_ctr' = 0 THEN "u_wake" ELSE "idle"]
  /\ down_path' = [down_path EXCEPT ![r] = "none"]
  /\ UNCHANGED <<fast_read_ctr, writer_mutex, rw_sem, write_waitq,
                 seen_locked, rcpu, wpc, sum, cpu, ever_locked, at_barrier,
                 init_ret>>

\* mutation: the wake-up is left out
wake_up_none == write_waitq' = write_waitq

\* wake_up_all(&brw->write_waitq): every queued writer becomes runnable
wake_up_all == write_waitq' = {}

UR_wake(r) ==
  /\ rpc[r] = "u_wake"
  /\ wake_up_all
  /\ rpc' = [rpc EXCEPT ![r] = "idle"]
  /\ UNCHANGED <<fast_read_ctr, slow_read_ctr, writer_mutex, rw_sem,
                 seen_locked, rcpu, wpc, sum, cpu, ever_locked, at_barrier,
                 init_ret, down_path>>

percpu_up_read(r) ==
  \/ UR_test(r)
  \/ UR_add(r)
  \/ UR_dec(r)
  \/ UR_wake(r)

\* ------------------------------------------------ percpu_down_write
\* the call: the writer is now inside mutex_lock()
DW_call(w) ==
  /\ wpc[w] = "idle"
  /\ wpc' = [wpc EXCEPT ![w] = "w_lock"]
  /\ UNCHANGED <<fast_read_ctr, slow_read_ctr, writer_mutex, rw_sem,
                 write_waitq, seen_locked, rpc, rcpu, sum, cpu, ever_locked,
                 at_barrier,
                 init_ret, down_path>>

\* mutation: mutex_lock() returns although the mutex is held
mutex_can_lock_held == TRUE

\* mutex_lock(&brw->writer_mutex) can return
mutex_can_lock == writer_mutex = 0

DW_mutex_lock(w) ==
  /\ wpc[w] = "w_lock"
  /\ mutex_can_lock
  /\ writer_mutex' = w
  /\ ever_locked' = TRUE
  /\ wpc' = [wpc EXCEPT ![w] = "w_sync"]
  /\ UNCHANGED <<fast_read_ctr, slow_read_ctr, rw_sem, write_waitq,
                 seen_locked, rpc, rcpu, sum, cpu, at_barrier,
                 init_ret, down_path>>

\* mutation: the barrier returns while a preempt-disabled section still runs
sched_quiescent_nowait == TRUE

\* synchronize_sched_expedited() can return: every preempt-disabled section
\* that was running has ended
sched_quiescent == \A r \in Readers : ~InSection(r)

DW_sync(w) ==
  /\ wpc[w] = "w_sync"
  /\ sched_quiescent
  /\ seen_locked' = CPUs
  /\ at_barrier' = [called |-> Cardinality({r \in Readers : Called(r)}),
                    inread |-> Cardinality({r \in Readers : InRead(r)}),
                    holding |-> Cardinality({r \in Readers : Holding(r)}),
                    slow |-> slow_read_ctr,
                    fast |-> SumTo32(fast_read_ctr, NumCPUs)]
  /\ wpc' = [wpc EXCEPT ![w] = "w_clear"]
  /\ sum' = [sum EXCEPT ![w] = 0]
  /\ cpu' = [cpu EXCEPT ![w] = 1]
  /\ UNCHANGED <<fast_read_ctr, slow_read_ctr, writer_mutex, rw_sem,
                 write_waitq, rpc, rcpu, ever_locked,
                 init_ret, down_path>>

\* mutation: the slot is read but not added to the sum
clear_fast_ctr_step_nosum(w) ==
  /\ sum' = sum
  /\ fast_read_ctr' = [fast_read_ctr EXCEPT ![cpu[w]] = 0]

\* mutation: the sum stops at the largest and at the smallest int
clear_fast_ctr_step_saturating(w) ==
  /\ sum' = [sum EXCEPT ![w] =
               LET b == fast_read_ctr[cpu[w]] IN
               IF @ > 0 /\ b > MaxInt - @ THEN MaxInt
               ELSE IF @ < 0 /\ b < MinInt - @ THEN MinInt
               ELSE @ + b]
  /\ fast_read_ctr' = [fast_read_ctr EXCEPT ![cpu[w]] = 0]

\* one iteration of clear_fast_ctr's for_each_possible_cpu loop
clear_fast_ctr_step(w) ==
  /\ sum' = [sum EXCEPT ![w] = Add32(@, fast_read_ctr[cpu[w]])]
  /\ fast_read_ctr' = [fast_read_ctr EXCEPT ![cpu[w]] = 0]

DW_clear(w) ==
  /\ wpc[w] = "w_clear"
  /\ clear_fast_ctr_step(w)
  /\ IF cpu[w] = NumCPUs
       THEN /\ cpu' = [cpu EXCEPT ![w] = 0]
            /\ wpc' = [wpc EXCEPT ![w] = "w_add"]
       ELSE /\ cpu' = [cpu EXCEPT ![w] = @ + 1]
            /\ wpc' = wpc
  /\ UNCHANGED <<slow_read_ctr, writer_mutex, rw_sem, write_waitq,
                 seen_locked, rpc, rcpu, ever_locked, at_barrier,
                 init_ret, down_path>>

\* mutation: atomic_set() in place of atomic_add()
DW_add_set(w) ==
  /\ wpc[w] = "w_add"
  /\ slow_read_ctr' = sum[w]
  /\ sum' = [sum EXCEPT ![w] = 0]
  /\ at_barrier' = NoBarrier
  /\ wpc' = [wpc EXCEPT ![w] = "w_down"]
  /\ UNCHANGED <<fast_read_ctr, writer_mutex, rw_sem, write_waitq,
                 seen_locked, rpc, rcpu, cpu, ever_locked,
                 init_ret, down_path>>

\* atomic_add(clear_fast_ctr(brw), &brw->slow_read_ctr): the sum returned as int
DW_add(w) ==
  /\ wpc[w] = "w_add"
  /\ slow_read_ctr' = Add32(slow_read_ctr, sum[w])
  /\ sum' = [sum EXCEPT ![w] = 0]
  /\ at_barrier' = NoBarrier
  /\ wpc' = [wpc EXCEPT ![w] = "w_down"]
  /\ UNCHANGED <<fast_read_ctr, writer_mutex, rw_sem, write_waitq,
                 seen_locked, rpc, rcpu, cpu, ever_locked,
                 init_ret, down_path>>

\* mutation: rw_sem is taken for write while readers hold it
DW_down_write_shared(w) ==
  /\ wpc[w] = "w_down"
  /\ rw_sem.writer = 0
  /\ rw_sem' = [rw_sem EXCEPT !.writer = w]
  /\ wpc' = [wpc EXCEPT ![w] = "w_wait"]
  /\ UNCHANGED <<fast_read_ctr, slow_read_ctr, writer_mutex, write_waitq,
                 seen_locked, rpc, rcpu, sum, cpu, ever_locked, at_barrier,
                 init_ret, down_path>>

\* down_write(&brw->rw_sem): blocks while anybody holds rw_sem
DW_down_write(w) ==
  /\ wpc[w] = "w_down"
  /\ rw_sem.writer = 0
  /\ rw_sem.readers = {}
  /\ rw_sem' = [rw_sem EXCEPT !.writer = w]
  /\ wpc' = [wpc EXCEPT ![w] = "w_wait"]
  /\ UNCHANGED <<fast_read_ctr, slow_read_ctr, writer_mutex, write_waitq,
                 seen_locked, rpc, rcpu, sum, cpu, ever_locked, at_barrier,
                 init_ret, down_path>>

\* mutation: wait_event returns without looking at slow_read_ctr
DW_wait_notest(w) ==
  /\ wpc[w] = "w_wait"
  /\ wpc' = [wpc EXCEPT ![w] = "w_cs"]
  /\ UNCHANGED <<fast_read_ctr, slow_read_ctr, writer_mutex, rw_sem,
                 write_waitq, seen_locked, rpc, rcpu, sum, cpu, ever_locked,
                 at_barrier, init_ret, down_path>>

\* mutation: the writer polls slow_read_ctr and never queues itself
DW_wait_spin(w) ==
  /\ wpc[w] = "w_wait"
  /\ slow_read_ctr = 0
  /\ wpc' = [wpc EXCEPT ![w] = "w_cs"]
  /\ UNCHANGED <<fast_read_ctr, slow_read_ctr, writer_mutex, rw_sem,
                 write_waitq, seen_locked, rpc, rcpu, sum, cpu, ever_locked,
                 at_barrier, init_ret, down_path>>

\* wait_event(brw->write_waitq, !atomic_read(&brw->slow_read_ctr)): the
\* condition is tested; when it is false the writer queues itself and sleeps
DW_wait(w) ==
  /\ wpc[w] = "w_wait"
  /\ IF slow_read_ctr = 0
       THEN /\ wpc' = [wpc EXCEPT ![w] = "w_cs"]
            /\ write_waitq' = write_waitq
       ELSE /\ wpc' = [wpc EXCEPT ![w] = "w_sleep"]
            /\ write_waitq' = write_waitq \cup {w}
  /\ UNCHANGED <<fast_read_ctr, slow_read_ctr, writer_mutex, rw_sem,
                 seen_locked, rpc, rcpu, sum, cpu, ever_locked, at_barrier,
                 init_ret, down_path>>

\* a woken writer leaves schedule() and tests the condition again
DW_woken(w) ==
  /\ wpc[w] = "w_sleep"
  /\ w \notin write_waitq
  /\ wpc' = [wpc EXCEPT ![w] = "w_wait"]
  /\ UNCHANGED <<fast_read_ctr, slow_read_ctr, writer_mutex, rw_sem,
                 write_waitq, seen_locked, rpc, rcpu, sum, cpu, ever_locked,
                 at_barrier,
                 init_ret, down_path>>

percpu_down_write(w) ==
  \/ DW_call(w)
  \/ DW_mutex_lock(w)
  \/ DW_sync(w)
  \/ DW_clear(w)
  \/ DW_add(w)
  \/ DW_down_write(w)
  \/ DW_wait(w)
  \/ DW_woken(w)

\* -------------------------------------------------- percpu_up_write
\* mutation: writer_mutex is released together with rw_sem
UW_up_write_unlocks(w) ==
  /\ wpc[w] = "w_cs"
  /\ rw_sem' = [rw_sem EXCEPT !.writer = 0]
  /\ writer_mutex' = 0
  /\ seen_locked' = {}
  /\ wpc' = [wpc EXCEPT ![w] = "u_sync"]
  /\ UNCHANGED <<fast_read_ctr, slow_read_ctr, write_waitq, rpc, rcpu, sum,
                 cpu, ever_locked, at_barrier, init_ret, down_path>>

\* mutation: percpu_up_write leaves rw_sem locked for write
UW_up_write_keep(w) ==
  /\ wpc[w] = "w_cs"
  /\ wpc' = [wpc EXCEPT ![w] = "u_sync"]
  /\ UNCHANGED <<fast_read_ctr, slow_read_ctr, writer_mutex, rw_sem,
                 write_waitq, seen_locked, rpc, rcpu, sum, cpu, ever_locked,
                 at_barrier, init_ret, down_path>>

\* up_write(&brw->rw_sem)
UW_up_write(w) ==
  /\ wpc[w] = "w_cs"
  /\ rw_sem' = [rw_sem EXCEPT !.writer = 0]
  /\ wpc' = [wpc EXCEPT ![w] = "u_sync"]
  /\ UNCHANGED <<fast_read_ctr, slow_read_ctr, writer_mutex, write_waitq,
                 seen_locked, rpc, rcpu, sum, cpu, ever_locked, at_barrier,
                 init_ret, down_path>>

\* synchronize_sched_expedited()
UW_sync(w) ==
  /\ wpc[w] = "u_sync"
  /\ sched_quiescent
  /\ wpc' = [wpc EXCEPT ![w] = "u_unlock"]
  /\ UNCHANGED <<fast_read_ctr, slow_read_ctr, writer_mutex, rw_sem,
                 write_waitq, seen_locked, rpc, rcpu, sum, cpu, ever_locked,
                 at_barrier,
                 init_ret, down_path>>

\* mutation: percpu_up_write returns with writer_mutex still locked
UW_mutex_unlock_keep(w) ==
  /\ wpc[w] = "u_unlock"
  /\ wpc' = [wpc EXCEPT ![w] = "idle"]
  /\ UNCHANGED <<fast_read_ctr, slow_read_ctr, writer_mutex, rw_sem,
                 write_waitq, seen_locked, rpc, rcpu, sum, cpu, ever_locked,
                 at_barrier, init_ret, down_path>>

\* mutex_unlock(&brw->writer_mutex)
UW_mutex_unlock(w) ==
  /\ wpc[w] = "u_unlock"
  /\ writer_mutex' = 0
  /\ seen_locked' = {}
  /\ wpc' = [wpc EXCEPT ![w] = "idle"]
  /\ UNCHANGED <<fast_read_ctr, slow_read_ctr, rw_sem, write_waitq, rpc,
                 rcpu, sum, cpu, ever_locked, at_barrier,
                 init_ret, down_path>>

percpu_up_write(w) ==
  \/ UW_up_write(w)
  \/ UW_sync(w)
  \/ UW_mutex_unlock(w)

\* ------------------------------------------------------------- Next
Next ==
  \/ \E r \in Readers : percpu_down_read(r)
  \/ \E r \in Readers : percpu_up_read(r)
  \/ \E w \in Writers : percpu_down_write(w)
  \/ \E w \in Writers : percpu_up_write(w)

Spec == Init /\ [][Next]_vars

\* -------------------------------------------------------- fairness
\* The steps of a thread that is inside one of the four functions, or that
\* holds the lock and calls the matching release (every holder releases in
\* the end); whether percpu_down_read or percpu_down_write is called at all
\* is left to the caller.
ReaderRuns(r) ==
  \/ DR_add(r) \/ DR_down_read(r) \/ DR_inc(r) \/ DR_up_read(r)
  \/ percpu_up_read(r)

WriterRuns(w) ==
  \/ DW_sync(w) \/ DW_clear(w) \/ DW_add(w) \/ DW_down_write(w)
  \/ DW_wait(w) \/ DW_woken(w)
  \/ percpu_up_write(w)

\* The scheduler runs every runnable thread; writer_mutex hands the lock to
\* its waiters in turn, so a writer waiting in mutex_lock() is not passed
\* over for ever.
Fairness ==
  /\ \A r \in Readers : WF_vars(ReaderRuns(r))
  /\ \A w \in Writers : WF_vars(WriterRuns(w))
  /\ \A w \in Writers : SF_vars(DW_mutex_lock(w))

LiveSpec == Init /\ [][Next]_vars /\ Fairness

\* rw_sem queues its waiters and hands the lock on in their order, so a
\* reader waiting in down_read(rw_sem) is not passed over for ever by writers
\* that take rw_sem again and again.
RwSemFairness == \A r \in Readers : SF_vars(DR_down_read(r))

FairSemSpec == Init /\ [][Next]_vars /\ Fairness /\ RwSemFairness

\* ------------------------------------------------ percpu_init_rwsem
\* brw->fast_read_ctr after a failed alloc_percpu(int): no slots at all
NullPtr == <<>>
\* what uninitialised fields may hold before percpu_init_rwsem runs
JunkSlots == [c \in CPUs |-> 1]
JunkCtr == {-1, 0, 1}
JunkOwner == {0, 1}
JunkQueue == {{}, {1}}

\* the memory of a struct percpu_rw_semaphore nobody has initialised; no
\* thread uses the lock yet
Uninit ==
  /\ fast_read_ctr = JunkSlots
  /\ slow_read_ctr \in JunkCtr
  /\ writer_mutex \in JunkOwner
  /\ \E o \in JunkOwner : rw_sem = [writer |-> o, readers |-> {}]
  /\ write_waitq \in JunkQueue
  /\ seen_locked = {}
  /\ rpc = [r \in Readers |-> "idle"]
  /\ rcpu = [r \in Readers |-> 0]
  /\ wpc = [w \in Writers |-> "idle"]
  /\ sum = [w \in Writers |-> 0]
  /\ cpu = [w \in Writers |-> 0]
  /\ ever_locked = FALSE
  /\ at_barrier = NoBarrier
  /\ init_ret = "none"
  /\ down_path = [r \in Readers |-> "none"]

\* mutation: the locks and the counter are initialised before the result of
\* alloc_percpu is looked at
percpu_init_rwsem_early ==
  /\ init_ret # "ok"
  /\ \E allocated \in BOOLEAN :
       /\ fast_read_ctr' = IF allocated THEN [c \in CPUs |-> 0] ELSE NullPtr
       /\ init_ret' = IF allocated THEN "ok" ELSE "ENOMEM"
  /\ writer_mutex' = 0
  /\ rw_sem' = [writer |-> 0, readers |-> {}]
  /\ slow_read_ctr' = 0
  /\ write_waitq' = {}
  /\ UNCHANGED <<seen_locked, rpc, rcpu, wpc, sum, cpu, ever_locked,
                 at_barrier, down_path>>

\* percpu_init_rwsem(brw): alloc_percpu(int) gives zeroed slots or NULL; on
\* NULL the function returns -ENOMEM at once.  The caller of a failed
\* construction may call again.
percpu_init_rwsem ==
  /\ init_ret # "ok"
  /\ \E allocated \in BOOLEAN :
       IF allocated
         THEN /\ fast_read_ctr' = [c \in CPUs |-> 0]
              /\ writer_mutex' = 0
              /\ rw_sem' = [writer |-> 0, readers |-> {}]
              /\ slow_read_ctr' = 0
              /\ write_waitq' = {}
              /\ init_ret' = "ok"
         ELSE /\ fast_read_ctr' = NullPtr
              /\ init_ret' = "ENOMEM"
              /\ UNCHANGED <<writer_mutex, rw_sem, slow_read_ctr, write_waitq, down_path>>
  /\ UNCHANGED <<seen_locked, rpc, rcpu, wpc, sum, cpu, ever_locked,
                 at_barrier, down_path>>

\* the lock is used once its construction has returned 0
ConstructNext ==
  \/ percpu_init_rwsem
  \/ init_ret = "ok" /\ Next

ConstructSpec == Uninit /\ [][ConstructNext]_vars

\* ---------------------------------------------------- clear_fast_ctr
\* what a per-cpu slot and slow_read_ctr may hold when a writer drains: small
\* counts of either sign and the ends of the range of int
SlotValues == {MinInt, -1, 0, 1, MaxInt}
SlowValues == {-1, 0, MaxInt}

\* the first writer has passed the barrier of percpu_down_write and enters
\* clear_fast_ctr; no reader is about.  Here the history keeps the slots one
\* by one as they were at the barrier.
Draining1 ==
  /\ fast_read_ctr \in [CPUs -> SlotValues]
  /\ slow_read_ctr \in SlowValues
  /\ writer_mutex = 1
  /\ rw_sem = [writer |-> 0, readers |-> {}]
  /\ write_waitq = {}
  /\ seen_locked = CPUs
  /\ rpc = [r \in Readers |-> "idle"]
  /\ rcpu = [r \in Readers |-> 0]
  /\ wpc = [w \in Writers |-> IF w = 1 THEN "w_clear" ELSE "idle"]
  /\ sum = [w \in Writers |-> 0]
  /\ cpu = [w \in Writers |-> IF w = 1 THEN 1 ELSE 0]
  /\ ever_locked = TRUE
  /\ at_barrier = [called |-> 0, inread |-> 0, holding |-> 0,
                   slow |-> slow_read_ctr,
                   fast |-> SumTo32(fast_read_ctr, NumCPUs),
                   slots |-> fast_read_ctr]
  /\ init_ret = "ok"
  /\ down_path = [r \in Readers |-> "none"]

\* clear_fast_ctr and the atomic_add of what it returns
ClearNext == \E w \in Writers : DW_clear(w) \/ DW_add(w)

ClearSpec == Draining1 /\ [][ClearNext]_vars

\* One thread may take both parts.  In the two specifications below the
\* reader and the writer of the same number are one thread, which runs one
\* function at a time.
Threads == Readers \cap Writers

\* Thread t reads and writes by turns, and does not release its read access
\* before it asks for write access: percpu_down_write is called either with
\* nothing held or from inside the read section.
UpgradeNext ==
  \/ \E r \in Readers :
       /\ r \in Writers => wpc[r] = "idle"
       /\ percpu_down_read(r) \/ percpu_up_read(r)
  \/ \E w \in Writers :
       /\ w \in Readers => rpc[w] \in {"idle", "cs"}
       /\ percpu_down_write(w) \/ percpu_up_write(w)

UpgradeSpec == Init /\ [][UpgradeNext]_vars

\* The readers are the nesting levels of one thread: level r + 1 is a call
\* of percpu_down_read made while the access of level r is held, and level r
\* is released after level r + 1.
NestedNext ==
  \/ \E r \in Readers :
       /\ r > 1 => rpc[r - 1] = "cs"
       /\ r < NumReaders => rpc[r + 1] = "idle"
       /\ percpu_down_read(r) \/ percpu_up_read(r)
  \/ \E w \in Writers : percpu_down_write(w) \/ percpu_up_write(w)

NestedSpec == Init /\ [][NestedNext]_vars

\* ==================================================================
\*                           the claims
\* ==================================================================

\* C1: reader/writer mutual exclusion.  No writer is between the return of
\* percpu_down_write and its call of percpu_up_write while a reader is
\* between the return of percpu_down_read and its call of percpu_up_read
\* (so neither function returns into the other's critical section).
C1_MutualExclusion ==
  \A w \in Writers : \A r \in Readers : ~(InWrite(w) /\ InRead(r))

\* a writer is in its exclusive section while a reader that called
\* percpu_down_read is kept waiting in down_read(rw_sem)
C1_Witness ==
  \E w \in Writers : \E r \in Readers :
    InWrite(w) /\ rpc[r] = "d_sem" /\ slow_read_ctr = 0

\* C2: writer/writer mutual exclusion.  At most one writer is between
\* mutex_lock(writer_mutex) and mutex_unlock(writer_mutex), and it is the
\* owner of writer_mutex.
HasMutex(w) == wpc[w] \notin {"idle", "w_lock"}

C2_WriterExclusion ==
  /\ Cardinality({w \in Writers : HasMutex(w)}) <= 1
  /\ \A w \in Writers : HasMutex(w) <=> writer_mutex = w

\* one writer is in its exclusive section while another waits in mutex_lock
C2_Witness ==
  \E w1 \in Writers : \E w2 \in Writers :
    InWrite(w1) /\ wpc[w2] = "w_lock"

\* C3: deadlock freedom.  Whenever some thread is blocked (in mutex_lock, in
\* down_read or down_write of rw_sem, or asleep on write_waitq), some thread
\* that is inside a call or holds the lock can take a step: progress never
\* depends on a new percpu_down_read or percpu_down_write being called.
BlockedReader(r) == rpc[r] = "d_sem" /\ rw_sem.writer # 0

BlockedWriter(w) ==
  \/ wpc[w] = "w_lock" /\ writer_mutex # 0
  \/ wpc[w] = "w_down" /\ (rw_sem.writer # 0 \/ rw_sem.readers # {})
  \/ wpc[w] = "w_sleep" /\ w \in write_waitq

Progress ==
  \/ \E r \in Readers : ReaderRuns(r)
  \/ \E w \in Writers : DW_mutex_lock(w) \/ WriterRuns(w)

C3_NoDeadlock ==
  ((\E r \in Readers : BlockedReader(r)) \/ (\E w \in Writers : BlockedWriter(w)))
    => ENABLED Progress

\* a writer sleeps on write_waitq, the other writer waits for writer_mutex
\* and a reader waits for rw_sem, all at once
C3_Witness ==
  \E w1 \in Writers : \E w2 \in Writers : \E r \in Readers :
    /\ wpc[w1] = "w_sleep" /\ w1 \in write_waitq
    /\ wpc[w2] = "w_lock"
    /\ BlockedReader(r)

\* C4: writer liveness under fair scheduling.  If from some point on no
\* reader calls percpu_down_read any more (and the readers that hold the
\* lock call percpu_up_read, which Fairness makes them do), every writer
\* that has called percpu_down_write returns from it.
InDownWrite(w) ==
  wpc[w] \in {"w_lock", "w_sync", "w_clear", "w_add", "w_down", "w_wait", "w_sleep"}

C4_WriterLiveness ==
  (<>[][\A r \in Readers : ~DR_test(r)]_vars)
    => \A w \in Writers : (InDownWrite(w) ~> InWrite(w))

\* a writer that slept in wait_event has been woken by the last reader's
\* percpu_up_read and finds slow_read_ctr zero
C4_Witness ==
  \E w \in Writers :
    /\ wpc[w] = "w_sleep" /\ w \notin write_waitq
    /\ slow_read_ctr = 0
    /\ \A r \in Readers : rpc[r] = "idle"

\* C5 as claimed: no per-cpu slot and not slow_read_ctr is ever negative.
C5_NoNegativeCounter ==
  /\ slow_read_ctr >= 0
  /\ \A c \in CPUs : fast_read_ctr[c] >= 0

\* what the counters hold together: the per-cpu slots, slow_read_ctr and the
\* partial sum a draining writer has taken out of the slots
Total == Add32(Add32(SumTo32(fast_read_ctr, NumCPUs), slow_read_ctr),
               SumTo32(sum, NumWriters))

\* C5 amended: single counters do go negative, their total never does.
C5_TotalNotNegative == Total >= 0

\* slow_read_ctr is negative while a reader holds the lock: a reader that
\* came in on the fast path has gone out on the slow one and another is in
C5_Witness ==
  /\ slow_read_ctr < 0
  /\ \E r \in Readers : InRead(r)

\* C6: while writer_mutex has never been taken every reader goes through the
\* fast path only: no reader is in or behind down_read(rw_sem) or at the
\* atomic decrement, rw_sem is untouched, slow_read_ctr is unchanged from
\* zero, write_waitq is empty, and a reader inside update_fast_ctr can
\* finish it at once.
FastPathOnly(r) == rpc[r] \in {"idle", "d_add", "cs", "u_add"}

C6_FastPathWithoutWriter ==
  ~ever_locked =>
    /\ \A r \in Readers : FastPathOnly(r)
    /\ \A r \in Readers : rpc[r] = "d_add" => ENABLED DR_add(r)
    /\ \A r \in Readers : rpc[r] = "u_add" => ENABLED UR_add(r)
    /\ rw_sem = [writer |-> 0, readers |-> {}]
    /\ slow_read_ctr = 0
    /\ write_waitq = {}

\* all readers hold the lock at once, none of them through the slow path
C6_Witness ==
  /\ ~ever_locked
  /\ \A r \in Readers : InRead(r)
  /\ SumFast = NumReaders

\* C7 as claimed: with no writer, no per-cpu slot is ever negative.
C7_NoNegativeSlot ==
  ~ever_locked => \A c \in CPUs : fast_read_ctr[c] >= 0

\* C7 amended: with no writer, the sum of the per-cpu slots is never
\* negative (a slot is, once a reader has released on another cpu than the
\* one it acquired on).
C7_SumNotNegative == ~ever_locked => SumFast >= 0

\* a reader has released on another cpu than it acquired on
C7_Witness ==
  /\ ~ever_locked
  /\ \E c \in CPUs : fast_read_ctr[c] < 0

\* C8: with no writer, once every reader that called percpu_down_read has
\* returned from its percpu_up_read, the per-cpu slots sum to zero.
C8_SumZeroWhenIdle ==
  (~ever_locked /\ \A r \in Readers : rpc[r] = "idle") => SumFast = 0

\* all readers are out again and left slots that are not zero
C8_Witness ==
  /\ ~ever_locked
  /\ \A r \in Readers : rpc[r] = "idle"
  /\ \E c \in CPUs : fast_read_ctr[c] > 0

\* C9 as claimed: the sum clear_fast_ctr returns is the number of readers
\* that, when the writer's barrier completed, had called percpu_down_read
\* and not yet called percpu_up_read; stated for each reading of that
\* number: the readers inside percpu_down_read or behind it, the readers
\* between the two calls, the readers between increment and decrement.
C9_DrainCountsReaders ==
  \A w \in Writers :
    wpc[w] = "w_add" =>
      sum[w] \in {at_barrier.called, at_barrier.inread, at_barrier.holding}

\* C9 amended: the sum clear_fast_ctr returns is the number of readers whose
\* increment was done and whose decrement was not when the barrier
\* completed, less the value slow_read_ctr had then.
C9_DrainCountsHolders ==
  \A w \in Writers :
    wpc[w] = "w_add" => sum[w] = Add32(at_barrier.holding, -at_barrier.slow)

\* the drain is complete; at the barrier one reader held the lock through
\* the fast path and the other through the slow path
C9_Witness ==
  \E w \in Writers :
    /\ wpc[w] = "w_add"
    /\ at_barrier.holding = 2
    /\ at_barrier.slow = 1
    /\ sum[w] = 1

\* C10: a writer that reaches the test of wait_event while no reader holds
\* read access and none is acquiring finds slow_read_ctr zero, returns from
\* percpu_down_write and is not put on write_waitq.
NoReaders == \A r \in Readers : rpc[r] \in {"idle", "u_wake"}

C10_NoSleepWithoutReaders ==
  [][\A w \in Writers :
       (NoReaders /\ wpc[w] = "w_wait" /\ wpc'[w] # "w_wait")
         => (slow_read_ctr = 0 /\ wpc'[w] = "w_cs" /\ w \notin write_waitq')]_vars

\* no reader is about; the writer has drained slots that earlier readers left
\* out of balance (acquired on the slow path, released on the fast path) and
\* is about to cancel slow_read_ctr with the sum
C10_Witness ==
  \E w \in Writers :
    /\ wpc[w] = "w_add"
    /\ \A r \in Readers : rpc[r] = "idle"
    /\ sum[w] < 0
    /\ Add32(slow_read_ctr, sum[w]) = 0

\* ----------------------------------------------------------------
\* the thread t that called percpu_down_write from inside its read section
Upgrading(t) == rpc[t] = "cs" /\ wpc[t] # "idle"

\* C11: read-to-write upgrade deadlocks.  A thread that holds read access
\* and calls percpu_down_write never returns from that call: it is never past
\* wait_event, and from its atomic_add on slow_read_ctr is above zero, the
\* thread's own read access being counted in it.
C11_UpgradeNeverReturns ==
  \A t \in Threads :
    Upgrading(t) =>
      /\ wpc[t] \in {"w_lock", "w_sync", "w_clear", "w_add", "w_down",
                     "w_wait", "w_sleep"}
      /\ wpc[t] \in {"w_down", "w_wait", "w_sleep"} => slow_read_ctr > 0

\* the upgrading thread sleeps in wait_event on its own count, every other
\* reader being out
C11_Witness ==
  \E t \in Threads :
    /\ Upgrading(t)
    /\ wpc[t] = "w_sleep" /\ t \in write_waitq
    /\ slow_read_ctr = 1
    /\ \A r \in Readers \ {t} : rpc[r] = "idle"

\* ----------------------------------------------------------------
\* the nested call of level r waits for rw_sem, which writer w holds while it
\* waits in wait_event for the readers to leave
NestedDeadlock(r, w) ==
  /\ r > 1
  /\ rpc[r - 1] = "cs"
  /\ rpc[r] = "d_sem"
  /\ rw_sem.writer = w
  /\ wpc[w] \in {"w_wait", "w_sleep"}

\* C12: recursive read acquisition can deadlock.  Once the second
\* percpu_down_read of a thread waits in down_read(rw_sem) for a writer that
\* waits in wait_event, both wait for ever: no step leads out of that state.
C12_NestedReadDeadlock ==
  [][\A r \in Readers : \A w \in Writers :
       NestedDeadlock(r, w) => NestedDeadlock(r, w)']_vars

\* the state is reached, the writer having come between the two calls: the
\* first access was taken on the fast path and is counted in slow_read_ctr
C12_Witness ==
  \E r \in Readers : \E w \in Writers :
    /\ NestedDeadlock(r, w)
    /\ wpc[w] = "w_sleep" /\ w \in write_waitq
    /\ writer_mutex = w
    /\ slow_read_ctr = 1

\* ----------------------------------------------------------------
\* C13: construction.  A call of percpu_init_rwsem whose allocation fails
\* returns -ENOMEM, leaves fast_read_ctr NULL and writes none of writer_mutex,
\* rw_sem, slow_read_ctr and write_waitq; a call whose allocation succeeds
\* returns 0 with every per-cpu counter 0, slow_read_ctr 0, writer_mutex
\* unlocked and rw_sem free.
C13_Construction ==
  [][percpu_init_rwsem =>
       /\ fast_read_ctr' = NullPtr =>
            /\ init_ret' = "ENOMEM"
            /\ UNCHANGED <<writer_mutex, rw_sem, slow_read_ctr, write_waitq>>
       /\ fast_read_ctr' # NullPtr =>
            /\ init_ret' = "ok"
            /\ \A c \in CPUs : fast_read_ctr'[c] = 0
            /\ slow_read_ctr' = 0
            /\ writer_mutex' = 0
            /\ rw_sem' = [writer |-> 0, readers |-> {}]]_vars

\* a failed construction has left behind what was in the memory before
C13_Witness ==
  /\ init_ret = "ENOMEM"
  /\ fast_read_ctr = NullPtr
  /\ slow_read_ctr # 0
  /\ writer_mutex # 0

\* ----------------------------------------------------------------
HoldCount == Cardinality({r \in Readers : Holding(r)})
InReadCount == Cardinality({r \in Readers : InRead(r)})

\* C14 as claimed: with writer_mutex not held, the per-cpu slots add up to
\* the number of readers holding read access (counted either from the return
\* of percpu_down_read or from the increment).
C14_FastSumCountsReaders ==
  writer_mutex = 0 => SumFast \in {InReadCount, HoldCount}

\* C14 amended: with writer_mutex not held, the per-cpu slots and
\* slow_read_ctr together add up to the number of readers holding read
\* access.
C14_FastAndSlowCountReaders ==
  writer_mutex = 0 =>
    HoldCount = Add32(SumTo32(fast_read_ctr, NumCPUs), slow_read_ctr)

\* no writer is there, a reader is in its read section and no slot counts it
C14_Witness ==
  /\ writer_mutex = 0
  /\ \A w \in Writers : wpc[w] = "idle"
  /\ InReadCount = 1 /\ HoldCount = 1
  /\ \A c \in CPUs : fast_read_ctr[c] = 0
  /\ slow_read_ctr = 1

\* ----------------------------------------------------------------
\* C15 as claimed: with writer_mutex not held, slow_read_ctr is zero.
C15_SlowZeroWithoutWriter == writer_mutex = 0 => slow_read_ctr = 0

\* C15 amended: with writer_mutex not held, slow_read_ctr is what the
\* per-cpu slots lack to count the readers holding read access; it is zero
\* when the slots count them all.
C15_SlowIsWhatSlotsLack ==
  writer_mutex = 0 =>
    slow_read_ctr = Add32(HoldCount, -SumTo32(fast_read_ctr, NumCPUs))

\* no writer and no reader is there, and slow_read_ctr is not zero
C15_Witness ==
  /\ writer_mutex = 0
  /\ \A w \in Writers : wpc[w] = "idle"
  /\ \A r \in Readers : rpc[r] = "idle"
  /\ slow_read_ctr = 1
  /\ SumFast = -1

\* ----------------------------------------------------------------
\* C16: the writer's exclusive state.  From the return of percpu_down_write
\* to the call of percpu_up_write slow_read_ctr is zero, every per-cpu slot
\* is zero and the writer holds writer_mutex and rw_sem for write.
C16_ExclusiveState ==
  \A w \in Writers :
    InWrite(w) =>
      /\ slow_read_ctr = 0
      /\ \A c \in CPUs : fast_read_ctr[c] = 0
      /\ writer_mutex = w
      /\ rw_sem = [writer |-> w, readers |-> {}]

\* a writer is in, a reader and the other writer wait for it
C16_Witness ==
  \E w \in Writers :
    /\ InWrite(w)
    /\ \E r \in Readers : rpc[r] = "d_sem"
    /\ \E v \in Writers : wpc[v] = "w_lock"

\* ----------------------------------------------------------------
\* writers between the completion of the barrier of percpu_down_write and
\* mutex_unlock
AfterBarrier(w) ==
  wpc[w] \in {"w_clear", "w_add", "w_down", "w_wait", "w_sleep", "w_cs",
              "u_sync", "u_unlock"}

\* C17: the fast counters are frozen under a writer.  From the completion
\* of the writer's barrier to mutex_unlock no reader is past a successful
\* test of update_fast_ctr, neither adding +1 nor adding -1.
C17_FastPathClosed ==
  (\E w \in Writers : AfterBarrier(w)) => \A r \in Readers : ~InSection(r)

\* in that window one reader is acquiring and one is releasing, both on the
\* slow path
C17_Witness ==
  /\ \E w \in Writers : AfterBarrier(w)
  /\ \E r \in Readers : rpc[r] = "d_sem"
  /\ \E r \in Readers : rpc[r] = "u_dec"

\* ----------------------------------------------------------------
\* writers inside clear_fast_ctr or about to add what it returned
Draining(w) == wpc[w] \in {"w_clear", "w_add"}

\* C18: the barrier handshake.  While clear_fast_ctr runs no reader is
\* between the test and the add of update_fast_ctr, and the sum taken so far
\* with the slots still to be read is what the slots held when the barrier
\* completed: every add made before the barrier is in the sum and none is
\* made after it.
C18_BarrierHandshake ==
  \A w \in Writers :
    Draining(w) =>
      /\ \A r \in Readers : ~InSection(r)
      /\ Add32(sum[w], SumTo32(fast_read_ctr, NumCPUs)) = at_barrier.fast

\* the sum holds a reader that added before the barrier, while a reader
\* that tested after the lock was taken is on the slow path
C18_Witness ==
  \E w \in Writers :
    /\ wpc[w] = "w_add"
    /\ sum[w] = 1
    /\ \E r \in Readers : rpc[r] = "cs"
    /\ \E r \in Readers : rpc[r] = "d_sem"

\* ----------------------------------------------------------------
\* one per-cpu slot changes by val, the others do not change
OneSlotAdd(val) ==
  \E c \in CPUs :
    /\ fast_read_ctr'[c] = Add32(fast_read_ctr[c], val)
    /\ \A d \in CPUs \ {c} : fast_read_ctr'[d] = fast_read_ctr[d]

\* what the step that moves reader r does to the counters
ReaderStep(r) ==
  LET from == rpc[r]
      to == rpc'[r]
      NoAdd == fast_read_ctr' = fast_read_ctr /\ slow_read_ctr' = slow_read_ctr
  IN
  \/ /\ from = "idle" /\ to \in {"d_add", "d_sem"}
     /\ NoAdd
  \/ /\ from = "d_add" /\ to = "cs"
     /\ OneSlotAdd(ValInc) /\ slow_read_ctr' = slow_read_ctr
  \/ /\ from = "d_sem" /\ to = "d_inc"
     /\ NoAdd
  \/ /\ from = "d_inc" /\ to = "d_up"
     /\ fast_read_ctr' = fast_read_ctr
     /\ slow_read_ctr' = Add32(slow_read_ctr, ValInc)
  \/ /\ from = "d_up" /\ to = "cs"
     /\ NoAdd
  \/ /\ from = "cs" /\ to \in {"u_add", "u_dec"}
     /\ NoAdd
  \/ /\ from = "u_add" /\ to = "idle"
     /\ OneSlotAdd(ValDec) /\ slow_read_ctr' = slow_read_ctr
  \/ /\ from = "u_dec" /\ to \in {"u_wake", "idle"}
     /\ fast_read_ctr' = fast_read_ctr
     /\ slow_read_ctr' = Add32(slow_read_ctr, ValDec)
  \/ /\ from = "u_wake" /\ to = "idle"
     /\ NoAdd

\* C19: no torn acquisition.  A percpu_down_read reaches its return either
\* through one +1 on one per-cpu slot, or through one +1 on slow_read_ctr,
\* and makes no other change to a counter; a percpu_up_read reaches its
\* return either through one -1 on one per-cpu slot or through one -1 on
\* slow_read_ctr.
C19_NoTornAcquisition ==
  [][\A r \in Readers : rpc'[r] # rpc[r] => ReaderStep(r)]_vars

\* two readers are in, one counted in a per-cpu slot and one in slow_read_ctr
C19_Witness ==
  /\ \A r \in Readers : rpc[r] = "cs"
  /\ SumFast = 1
  /\ slow_read_ctr = 1
  /\ \A c \in CPUs : fast_read_ctr[c] >= 0

\* ----------------------------------------------------------------
\* writers between the completion of atomic_add and mutex_unlock
AfterAdd(w) ==
  wpc[w] \in {"w_down", "w_wait", "w_sleep", "w_cs", "u_sync", "u_unlock"}

\* C20 as claimed: from the writer's atomic_add to mutex_unlock
\* slow_read_ctr is the number of readers that have returned from
\* percpu_down_read and not yet decremented in percpu_up_read.
C20_SlowCountsReturned ==
  (\E w \in Writers : AfterAdd(w)) =>
    slow_read_ctr =
      Cardinality({r \in Readers : rpc[r] \in {"cs", "u_add", "u_dec"}})

\* C20 amended: from the writer's atomic_add to mutex_unlock slow_read_ctr
\* is the number of readers that have made the increment of percpu_down_read
\* and not yet the decrement of percpu_up_read.
C20_SlowCountsIncremented ==
  (\E w \in Writers : AfterAdd(w)) => slow_read_ctr = HoldCount

\* slow_read_ctr counts a reader that came on the fast path before the
\* writer and a reader on the slow path that has yet to return
C20_Witness ==
  /\ \E w \in Writers : AfterAdd(w)
  /\ \E r \in Readers : rpc[r] = "cs"
  /\ \E r \in Readers : rpc[r] = "d_up"
  /\ slow_read_ctr = 2

\* ----------------------------------------------------------------
\* C21 as claimed: a reader that releases on the slow path (it is about to
\* decrement slow_read_ctr) had acquired on the slow path.
C21_SlowReleaseAfterSlowAcquire ==
  \A r \in Readers : rpc[r] = "u_dec" => down_path[r] = "slow"

\* C21 amended: a percpu_up_read takes the slow path when, and only when, its
\* test finds writer_mutex held, on whichever path the reader had acquired.
C21_SlowReleaseUnderWriter ==
  [][\A r \in Readers :
       (rpc[r] = "cs" /\ rpc'[r] = "u_dec") =>
          /\ writer_mutex # 0
          /\ down_path[r] \in {"fast", "slow"}]_vars

\* a reader counted in a per-cpu slot is about to decrement slow_read_ctr
C21_Witness ==
  \E r \in Readers :
    /\ rpc[r] = "u_dec"
    /\ down_path[r] = "fast"
    /\ slow_read_ctr = 0
    /\ SumFast = 1

\* ----------------------------------------------------------------
\* C22: no lost wake-up.  The decrement that takes slow_read_ctr to zero goes
\* on to wake_up_all, so that a writer queued while slow_read_ctr is zero has
\* its wake-up on the way; the writer leaves wait_event only from a test that
\* finds slow_read_ctr zero, whatever wake-ups reach it; and no writer stays
\* asleep for ever with slow_read_ctr zero.
C22_NoLostWakeup ==
  /\ [](\A w \in Writers :
          (wpc[w] = "w_sleep" /\ w \in write_waitq /\ slow_read_ctr = 0)
             => \E r \in Readers : rpc[r] = "u_wake")
  /\ [][/\ \A r \in Readers :
             (rpc[r] = "u_dec" /\ rpc'[r] # "u_dec" /\ slow_read_ctr' = 0)
                => rpc'[r] = "u_wake"
        /\ \A w \in Writers :
             (wpc[w] # "w_cs" /\ wpc'[w] = "w_cs")
                => wpc[w] = "w_wait" /\ slow_read_ctr = 0]_vars
  /\ \A w \in Writers :
       (wpc[w] = "w_sleep" /\ slow_read_ctr = 0) ~> (wpc[w] # "w_sleep")

\* a writer is queued and asleep, the last reader has taken slow_read_ctr to
\* zero and is about to wake it
C22_Witness ==
  \E w \in Writers : \E r \in Readers :
    /\ wpc[w] = "w_sleep" /\ w \in write_waitq
    /\ slow_read_ctr = 0
    /\ rpc[r] = "u_wake"

\* ----------------------------------------------------------------
\* C23: the drain does not race with the fast path.  While a writer is in
\* clear_fast_ctr it holds writer_mutex, every cpu has seen the lock and no
\* reader is between the test and the add of update_fast_ctr; a per-cpu slot
\* changes only by the add of a reader running on that cpu or by the loop of
\* clear_fast_ctr.
C23_DrainAlone ==
  /\ [](\A w \in Writers :
          wpc[w] = "w_clear" =>
            /\ writer_mutex = w
            /\ seen_locked = CPUs
            /\ \A r \in Readers : ~InSection(r))
  /\ [][\A c \in CPUs :
          fast_read_ctr'[c] # fast_read_ctr[c] =>
            \/ \E r \in Readers :
                 InSection(r) /\ rcpu[r] = c /\ ~InSection(r)'
            \/ \E w \in Writers :
                 /\ wpc[w] = "w_clear" /\ cpu[w] = c
                 /\ writer_mutex = w /\ seen_locked = CPUs]_vars

\* the writer has read and zeroed the first slot, which counted a reader that
\* is still in its read section
C23_Witness ==
  \E w \in Writers :
    /\ wpc[w] = "w_clear" /\ cpu[w] = 2
    /\ sum[w] = 1
    /\ \E r \in Readers : rpc[r] = "cs" /\ down_path[r] = "fast"

\* ----------------------------------------------------------------
\* writers between the end of clear_fast_ctr and mutex_unlock
AfterDrain(w) ==
  wpc[w] \in {"w_add", "w_down", "w_wait", "w_sleep", "w_cs", "u_sync",
              "u_unlock"}

\* C24: one drain for each percpu_down_write.  clear_fast_ctr is entered once
\* in each call, from the barrier, and takes each slot once, in turn, into
\* its sum; a slot it has read stays 0 while it reads the others, and from
\* its end to mutex_unlock every slot is 0.
C24_DrainedOnce ==
  /\ [](\A w \in Writers :
          /\ AfterDrain(w) => \A c \in CPUs : fast_read_ctr[c] = 0
          /\ wpc[w] = "w_clear" =>
               \A c \in CPUs : c < cpu[w] => fast_read_ctr[c] = 0)
  /\ [][\A w \in Writers :
          /\ (wpc[w] # "w_clear" /\ wpc'[w] = "w_clear") => wpc[w] = "w_sync"
          /\ (wpc[w] # "w_sync" /\ wpc'[w] = "w_sync") => wpc[w] = "w_lock"
          /\ (wpc[w] = "w_clear" /\ cpu'[w] # cpu[w]) =>
               /\ sum'[w] = Add32(sum[w], fast_read_ctr[cpu[w]])
               /\ fast_read_ctr'[cpu[w]] = 0
               /\ IF cpu[w] < NumCPUs
                    THEN cpu'[w] = cpu[w] + 1 /\ wpc'[w] = "w_clear"
                    ELSE wpc'[w] = "w_add"]_vars

\* the slots are 0 after a drain that took a reader out of them, while
\* readers come and go on the slow path
C24_Witness ==
  \E w \in Writers :
    /\ wpc[w] = "u_unlock"
    /\ \A c \in CPUs : fast_read_ctr[c] = 0
    /\ \E r \in Readers : rpc[r] = "cs" /\ down_path[r] = "slow"
    /\ \E r \in Readers : rpc[r] = "idle"

\* ----------------------------------------------------------------
\* writers between up_write(rw_sem) and mutex_unlock
Releasing(w) == wpc[w] \in {"u_sync", "u_unlock"}

\* C25: the order of percpu_up_write.  rw_sem is released first, then comes
\* the barrier, then writer_mutex is released; in between rw_sem is free and
\* writer_mutex held, so a reader is let through down_read(rw_sem), and a
\* reader that returns from percpu_down_read there has come by the slow path.
C25_ReleaseOrder ==
  /\ [](\A w \in Writers :
          Releasing(w) =>
            /\ rw_sem.writer = 0
            /\ writer_mutex = w
            /\ \A r \in Readers : rpc[r] = "d_sem" => ENABLED DR_down_read(r))
  /\ [][\A w \in Writers :
          /\ (wpc[w] = "w_cs" /\ wpc'[w] # "w_cs") =>
               wpc'[w] = "u_sync" /\ rw_sem'.writer = 0 /\ writer_mutex' = w
          /\ (wpc[w] = "u_sync" /\ wpc'[w] # "u_sync") =>
               wpc'[w] = "u_unlock" /\ writer_mutex' = w
          /\ (wpc[w] = "u_unlock" /\ wpc'[w] # "u_unlock") =>
               wpc'[w] = "idle" /\ writer_mutex' = 0
          /\ Releasing(w) =>
               \A r \in Readers :
                 (rpc[r] # "cs" /\ rpc'[r] = "cs") =>
                    rpc[r] = "d_up" /\ down_path'[r] = "slow"]_vars

\* a reader is in its read section before the writer has released
\* writer_mutex: it has come in after up_write(rw_sem)
C25_Witness ==
  \E w \in Writers : \E r \in Readers :
    /\ Releasing(w)
    /\ rpc[r] = "cs"
    /\ down_path[r] = "slow"
    /\ slow_read_ctr = 1

\* ----------------------------------------------------------------
\* C26: while a writer holds rw_sem for write no reader returns from
\* percpu_down_read and slow_read_ctr does not grow, every new reader
\* waiting in down_read(rw_sem); when slow_read_ctr is zero there no reader
\* holds read access.
C26_ClosedUnderRwSem ==
  /\ [](rw_sem.writer # 0 =>
          /\ \A r \in Readers : rpc[r] \notin {"d_add", "d_inc", "d_up"}
          /\ \A r \in Readers : rpc[r] = "d_sem" => ~ENABLED DR_down_read(r)
          /\ slow_read_ctr = 0 => \A r \in Readers : ~Holding(r))
  /\ [][rw_sem.writer # 0 =>
          /\ \A r \in Readers : ~(rpc[r] # "cs" /\ rpc'[r] = "cs")
          /\ slow_read_ctr' <= slow_read_ctr]_vars

\* the writer holds rw_sem and sleeps, one reader holds read access, the
\* other waits in down_read(rw_sem)
C26_Witness ==
  \E w \in Writers :
    /\ rw_sem.writer = w
    /\ wpc[w] = "w_sleep"
    /\ \E r \in Readers : rpc[r] = "cs"
    /\ \E r \in Readers : rpc[r] = "d_sem"

\* ----------------------------------------------------------------
\* writers between mutex_lock(writer_mutex) and down_write(rw_sem)
Announced(w) == wpc[w] \in {"w_sync", "w_clear", "w_add", "w_down"}

\* C27: a reader is not shut out by the announcement.  Between the writer's
\* mutex_lock and its down_write(rw_sem) rw_sem is free, so a reader on the
\* slow path is not held up in down_read(rw_sem); and while a reader that
\* came in on the slow path holds read access, the writer's wait_event finds
\* slow_read_ctr above zero and the writer is not in its write section.
C27_ReaderAfterAnnouncement ==
  \A w \in Writers :
    /\ Announced(w) =>
         \A r \in Readers : rpc[r] = "d_sem" => ENABLED DR_down_read(r)
    /\ (\E r \in Readers : Holding(r) /\ down_path[r] = "slow") =>
         /\ wpc[w] \in {"w_down", "w_wait", "w_sleep"} => slow_read_ctr > 0
         /\ ~InWrite(w)

\* the reader has incremented slow_read_ctr and still holds rw_sem for read,
\* the writer is at down_write(rw_sem)
C27_Witness ==
  \E w \in Writers : \E r \in Readers :
    /\ wpc[w] = "w_down"
    /\ rpc[r] = "d_up"
    /\ \A v \in Writers \ {w} : wpc[v] = "idle"
    /\ slow_read_ctr = 1

\* ----------------------------------------------------------------
\* writer w is inside percpu_down_write and cannot take its next step
BlockedInDownWrite(w) ==
  /\ wpc[w] \in {"w_lock", "w_sync", "w_clear", "w_add", "w_down", "w_wait",
                 "w_sleep"}
  /\ ~ENABLED percpu_down_write(w)

\* C28 as claimed, the barrier not counted as a point where the writer
\* blocks: a writer blocks in percpu_down_write only in mutex_lock and in
\* wait_event.
C28_BlocksAtTwoPoints ==
  \A w \in Writers :
    BlockedInDownWrite(w) => wpc[w] \in {"w_lock", "w_sync", "w_sleep"}

\* C28 amended: a writer blocks in percpu_down_write only in mutex_lock, in
\* the barrier, in down_write(rw_sem) and in wait_event.
C28_BlocksAtFourPoints ==
  \A w \in Writers :
    BlockedInDownWrite(w) =>
      wpc[w] \in {"w_lock", "w_sync", "w_down", "w_sleep"}

\* the writer waits in down_write(rw_sem) for a slow-path reader that holds
\* rw_sem for read
C28_Witness ==
  \E w \in Writers :
    /\ BlockedInDownWrite(w)
    /\ wpc[w] = "w_down"
    /\ rw_sem.readers # {}

\* ----------------------------------------------------------------
\* C29: the fast path comes back.  Whenever no writer is between mutex_lock
\* and mutex_unlock, whatever number of write cycles has been completed,
\* writer_mutex is free and every call of percpu_down_read and of
\* percpu_up_read passes the test of update_fast_ctr.
C29_FastPathReturns ==
  /\ []((\A w \in Writers : ~HasMutex(w)) => writer_mutex = 0)
  /\ [][(\A w \in Writers : ~HasMutex(w)) =>
          \A r \in Readers :
            /\ (rpc[r] = "idle" /\ rpc'[r] # "idle") => rpc'[r] = "d_add"
            /\ (rpc[r] = "cs" /\ rpc'[r] # "cs") => rpc'[r] = "u_add"]_vars

\* after a write cycle that left slow_read_ctr at 1, a reader is again on the
\* fast path
C29_Witness ==
  /\ \A w \in Writers : wpc[w] = "idle"
  /\ ever_locked
  /\ slow_read_ctr = 1
  /\ \E r \in Readers : rpc[r] = "d_add"

\* ----------------------------------------------------------------
\* C30: the frame of the fast path.  The add of a reader that passed the
\* test of update_fast_ctr changes the slot of the cpu it runs on by +1 (in
\* percpu_down_read) or by -1 (in percpu_up_read); no other slot changes, nor
\* do slow_read_ctr, writer_mutex, rw_sem and write_waitq.
C30_FastPathFrame ==
  [][\A r \in Readers :
       (InSection(r) /\ ~InSection(r)') =>
          /\ fast_read_ctr' =
               [fast_read_ctr EXCEPT
                  ![rcpu[r]] = Add32(@, IF rpc[r] = "d_add" THEN ValInc
                                                          ELSE ValDec)]
          /\ UNCHANGED <<slow_read_ctr, writer_mutex, rw_sem, write_waitq>>]_vars

\* the two slots differ: each add went to the cpu its reader ran on
C30_Witness ==
  /\ fast_read_ctr[1] = -1
  /\ fast_read_ctr[NumCPUs] = 1
  /\ ~ever_locked

\* ----------------------------------------------------------------
\* readers between down_read(rw_sem) and up_read(rw_sem) of percpu_down_read
InRwSem(r) == rpc[r] \in {"d_inc", "d_up"}

\* C31: readers hold rw_sem only inside percpu_down_read.  The readers that
\* hold rw_sem are those between down_read and up_read of the slow acquire
\* path; a reader in its read section or in percpu_up_read does not hold it,
\* and a writer that cannot get through down_write(rw_sem) waits for a
\* reader of the first kind.
C31_RwSemOnlyInDownRead ==
  /\ rw_sem.readers = {r \in Readers : InRwSem(r)}
  /\ \A w \in Writers :
       (wpc[w] = "w_down" /\ ~ENABLED DW_down_write(w)) =>
          \E r \in Readers : InRwSem(r)

\* one reader is in its read section by the slow path and the writer waits
\* in down_write(rw_sem) for the other alone
C31_Witness ==
  \E w \in Writers : \E r1, r2 \in Readers :
    /\ wpc[w] = "w_down" /\ ~ENABLED DW_down_write(w)
    /\ rpc[r1] = "cs" /\ down_path[r1] = "slow"
    /\ rpc[r2] = "d_up"
    /\ rw_sem.readers = {r2}

\* ----------------------------------------------------------------
\* C32 as claimed: the per-cpu slots and slow_read_ctr together count, in
\* every state, the readers that have incremented and not yet decremented.
C32_FastPlusSlowIsHolders ==
  Add32(SumTo32(fast_read_ctr, NumCPUs), slow_read_ctr) = HoldCount

\* C32 amended: the per-cpu slots, slow_read_ctr and the sum that a writer
\* inside clear_fast_ctr has taken out of the slots and not yet added to
\* slow_read_ctr together count those readers.
C32_GlobalAccounting == Total = HoldCount

\* a reader is counted nowhere but in the sum of the draining writer, other
\* readers having left a slot and slow_read_ctr off zero
C32_Witness ==
  \E w \in Writers :
    /\ wpc[w] = "w_add"
    /\ sum[w] = 2
    /\ slow_read_ctr = -1
    /\ HoldCount = 1

\* ----------------------------------------------------------------
\* reader r is inside percpu_down_read
InDownRead(r) == rpc[r] \in {"d_add", "d_sem", "d_inc", "d_up"}

Lo16(v) == v % 65536
Hi16(v) == ((v - Lo16(v)) \div 65536) % 65536
\* the halves of the first n slots of f, added up as numbers
RECURSIVE LoSum(_, _)
LoSum(f, n) == IF n = 0 THEN 0 ELSE Lo16(f[n]) + LoSum(f, n - 1)
RECURSIVE HiSum(_, _)
HiSum(f, n) == IF n = 0 THEN 0 ELSE Hi16(f[n]) + HiSum(f, n - 1)
\* v is, modulo 2^32, the number whose halves add up to lo and hi
SameMod32(v, lo, hi) ==
  /\ Lo16(v) = lo % 65536
  /\ Hi16(v) = (hi + lo \div 65536) % 65536

\* C34: the sum of clear_fast_ctr.  Whatever the slots hold, when
\* clear_fast_ctr returns every slot is 0 and the value returned is the sum
\* of the slots modulo 2^32; slow_read_ctr after the atomic_add is, modulo
\* 2^32, what it was plus that sum.
C34_ClearFastCtrSum ==
  /\ [](\A w \in Writers :
          wpc[w] = "w_add" =>
            /\ \A c \in CPUs : fast_read_ctr[c] = 0
            /\ SameMod32(sum[w], LoSum(at_barrier.slots, NumCPUs),
                                 HiSum(at_barrier.slots, NumCPUs)))
  /\ [][\A w \in Writers :
          (wpc[w] = "w_add" /\ wpc'[w] = "w_down") =>
             SameMod32(slow_read_ctr',
                       Lo16(slow_read_ctr) + LoSum(at_barrier.slots, NumCPUs),
                       Hi16(slow_read_ctr) + HiSum(at_barrier.slots, NumCPUs))
       ]_vars

\* the sum has gone round: no slot was negative, the first held the largest
\* int, and the sum is negative
C34_Witness ==
  \E w \in Writers :
    /\ wpc[w] = "w_add"
    /\ at_barrier.slots[1] = MaxInt
    /\ \A c \in CPUs : at_barrier.slots[c] >= 0
    /\ sum[w] < 0

====
